---- MODULE Spec2Model ----
(***************************************************************************)
(* count-lines.py: a line counter that walks a directory tree, applies     *)
(* global and per-project exclusion rules, and reports per-project totals. *)
(*                                                                         *)
(* A file or directory name is a sequence of one-character strings, so     *)
(* that lower-casing, substring search, prefixes and suffixes are computed *)
(* character by character as Python computes them.  A path is a sequence   *)
(* of names (pathlib's parts, the root anchor left implicit).              *)
(***************************************************************************)
EXTENDS Naturals, Integers, Sequences, FiniteSets, TLC

VARIABLES
    fs,              \* the tree beneath the target: relative paths of regular files
    config,          \* config.json: <<>> when devRoot cannot be loaded, else <<devRoot>>
    argv,            \* command line: [target, path, flag]
    pc,              \* position of the main flow
    run,             \* number of the current invocation (1 or 2)
    dev_root,        \* dev_root of __main__
    base_path,       \* base_path of __main__
    show_exclusions, \* show_exclusions of __main__
    project_stats,   \* dict, in insertion order: sequence of [project, files, lines]
    excluded_items,  \* list of <<kind, path>>
    total_files,
    total_lines,
    excluded_files,
    stack,           \* directories os.walk has still to visit (top is the last)
    visited,         \* directories os.walk has yielded
    files,           \* files of the current directory not yet iterated over
    file_path,       \* the loop's file_path (<<>> before the first file)
    was_excluded,    \* what should_exclude returned for file_path
    project,         \* the loop's project (aggregation key) for file_path
    lines,           \* the loop's lines for file_path
    sorted_projects, \* the report's rows
    output,          \* what was printed, as a sequence of tags
    exit_code,       \* -1 while running
    calls,           \* how many times count_project_lines was entered
    prev             \* the result of the previous invocation (<<>> in the first)

vars == <<fs, config, argv, pc, run, dev_root, base_path, show_exclusions,
          project_stats, excluded_items, total_files, total_lines,
          excluded_files, stack, visited, files, file_path, was_excluded,
          project, lines, sorted_projects, output, exit_code, calls,
          prev>>

-----------------------------------------------------------------------------
(* Strings *)

UpperChars == <<"A","B","C","D","E","F","G","H","I","J","K","L","M",
                "N","O","P","Q","R","S","T","U","V","W","X","Y","Z">>
LowerChars == <<"a","b","c","d","e","f","g","h","i","j","k","l","m",
                "n","o","p","q","r","s","t","u","v","w","x","y","z">>

LowerChar(c) ==
    IF \E i \in 1..Len(UpperChars) : UpperChars[i] = c
    THEN LowerChars[CHOOSE i \in 1..Len(UpperChars) : UpperChars[i] = c]
    ELSE c

\* str.lower()
Lower(s) == [i \in 1..Len(s) |-> LowerChar(s[i])]

\* sub in s
Contains(s, sub) ==
    \E i \in 1..(Len(s) - Len(sub) + 1) : SubSeq(s, i, i + Len(sub) - 1) = sub

\* s.startswith(pre)
StartsWith(s, pre) == Len(s) >= Len(pre) /\ SubSeq(s, 1, Len(pre)) = pre

\* s.rfind('.'), 1-based, 0 when there is no dot
RFindDot(s) ==
    IF \E i \in 1..Len(s) : s[i] = "."
    THEN CHOOSE i \in 1..Len(s) :
             s[i] = "." /\ \A j \in (i+1)..Len(s) : s[j] # "."
    ELSE 0

-----------------------------------------------------------------------------
(* Paths (pathlib) *)

\* str(path): every part preceded by the separator
RECURSIVE Str(_)
Str(p) == IF p = <<>> THEN <<>> ELSE <<"/">> \o Head(p) \o Str(Tail(p))

\* path.name
Name(p) == IF p = <<>> THEN <<>> ELSE p[Len(p)]

\* path.suffix: from the last dot of the name, unless that dot is the first
\* or the last character
Suffix(p) ==
    LET n == Name(p)
        i == RFindDot(n)
    IN  IF 1 < i /\ i < Len(n) THEN SubSeq(n, i, Len(n)) ELSE <<>>

\* path.relative_to(other) succeeds (it is lexical)
IsRelativeTo(p, other) ==
    Len(p) >= Len(other) /\ SubSeq(p, 1, Len(other)) = other

\* path.relative_to(other).parts
RelativeTo(p, other) == SubSeq(p, Len(other) + 1, Len(p))

\* x in parts
InParts(x, parts) == \E i \in 1..Len(parts) : parts[i] = x

-----------------------------------------------------------------------------
(* Literals of the rule table *)

S_log == <<"l","o","g">>
S_dot_log == <<".","l","o","g">>
S_dot_vsix == <<".","v","s","i","x">>
S_alohomora == <<"a","l","o","h","o","m","o","r","a">>
S_common_go == <<"c","o","m","m","o","n",".","g","o">>
S_alohomora_go == <<"a","l","o","h","o","m","o","r","a",".","g","o">>
S_e911 == <<"e","9","1","1">>
S_meraki_api == <<"m","e","r","a","k","i","-","a","p","i">>
S_backups == <<"b","a","c","k","u","p","s">>
S_logs == <<"l","o","g","s">>
S_config == <<"c","o","n","f","i","g">>
S_misc_scripts == <<"m","i","s","c","-","s","c","r","i","p","t","s">>
S_kevlar == <<"3","0","0","0","1","_","K","E","V","L","A","R","_","6","1","F",
              ".","c","o","n","f">>
S_hpp3 == <<"h","p","p","3">>
S_vpn_xlsx == <<"v","p","n","_","c","o","n","f","i","g","_","o","u","t","p","u","t",
                ".","x","l","s","x">>
S_defender == <<"d","e","f","e","n","d","e","r">>
S_dot_csv == <<".","c","s","v">>
S_powershell_console == <<"p","o","w","e","r","s","h","e","l","l","-",
                          "c","o","n","s","o","l","e">>
S_npm_packages == <<"n","p","m","-","p","a","c","k","a","g","e","s",
                    ".","j","s","o","n">>
S_backup == <<"b","a","c","k","u","p">>
S_prod == <<"_","p","r","o","d">>
S_root == <<"r","o","o","t">>
S_node_modules == <<"n","o","d","e","_","m","o","d","u","l","e","s">>

-----------------------------------------------------------------------------
(* should_exclude *)

\* the two global exclusions
GlobalExclusion(fp) ==
    \/ Contains(Lower(Str(fp)), S_log)
    \/ Suffix(fp) = S_dot_log
    \/ Suffix(fp) = S_dot_vsix

\* the project used for the rule lookup; <<>> stands for None
RuleProject(fp, base, dev) ==
    LET parts == RelativeTo(fp, base)
    IN  IF IsRelativeTo(fp, dev)
        THEN LET rel_to_dev == RelativeTo(fp, dev)
             IN  IF Len(rel_to_dev) > 0 THEN rel_to_dev[1] ELSE <<>>
        ELSE IF Len(parts) > 0 THEN parts[1] ELSE <<>>

\* Variant: the e911 rule is missing from the chain.
ProjectExclusion_NoE911(proj, fp, parts) ==
    IF proj = S_alohomora
    THEN Name(fp) \notin {S_common_go, S_alohomora_go}
    ELSE FALSE

\* Variant: the alohomora rule keeps common.go only.
ProjectExclusion_OneName(proj, fp, parts) ==
    IF proj = S_alohomora THEN Name(fp) # S_common_go
    ELSE proj = S_e911

\* the chain of project rules
ProjectExclusion(proj, fp, parts) ==
    IF proj = <<>> THEN FALSE
    ELSE IF proj = S_alohomora
         THEN Name(fp) \notin {S_common_go, S_alohomora_go}
    ELSE IF proj = S_e911
         THEN TRUE
    ELSE IF proj = S_meraki_api
         THEN InParts(S_backups, parts) \/ InParts(S_logs, parts)
              \/ InParts(S_config, parts)
    ELSE IF proj = S_misc_scripts
         THEN \/ Name(fp) = S_kevlar
              \/ StartsWith(Name(fp), S_hpp3)
              \/ Name(fp) = S_vpn_xlsx
    ELSE IF proj = S_defender
         THEN Suffix(fp) = S_dot_csv
    ELSE IF proj = S_powershell_console
         THEN \/ Name(fp) = S_npm_packages
              \/ Contains(Lower(Name(fp)), S_backup)
              \/ InParts(S_prod, parts)
    ELSE FALSE

\* Variant: a whitelisted alohomora file returns before the global checks.
should_exclude_RulesFirst(fp, base, dev) ==
    IF /\ RuleProject(fp, base, dev) = S_alohomora
       /\ Name(fp) \in {S_common_go, S_alohomora_go}
    THEN FALSE
    ELSE \/ GlobalExclusion(fp)
         \/ ProjectExclusion(RuleProject(fp, base, dev), fp,
                             RelativeTo(fp, base))

should_exclude(fp, base, dev) ==
    IF GlobalExclusion(fp) THEN TRUE
    ELSE ProjectExclusion(RuleProject(fp, base, dev), fp, RelativeTo(fp, base))

-----------------------------------------------------------------------------
(* count_lines_in_file *)

\* What open() and the iteration over the file do under one encoding:
\* "ok" with the number of lines read, or the exception raised.
Ok(n) == [tag |-> "ok", n |-> n]
Raises(e) == [tag |-> e, n |-> 0]

encodings == <<"utf-8", "latin-1", "cp1252">>

\* reads[i] is the outcome of the attempt under encodings[i]
RECURSIVE CountFrom(_, _)
CountFrom(reads, i) ==
    IF i > Len(encodings) THEN 0
    ELSE IF reads[i].tag = "ok" THEN reads[i].n
    ELSE IF reads[i].tag \in {"UnicodeDecodeError", "PermissionError"}
         THEN CountFrom(reads, i + 1)
    ELSE 0

\* Variant: a file no encoding can read yields the sentinel -1.
count_lines_in_file_Sentinel(reads) ==
    IF \A i \in 1..Len(reads) : reads[i].tag # "ok" THEN -1
    ELSE CountFrom(reads, 1)

count_lines_in_file(reads) == CountFrom(reads, 1)

-----------------------------------------------------------------------------
(* The file systems, configurations and command lines explored *)

MaxFiles == 3

N_dev == <<"d","e","v">>
N_ws == <<"w","s">>
N_other == <<"o","t","h","e","r">>
N_CataLOG == <<"C","a","t","a","L","O","G">>
N_priv == <<"p","r","i","v">>
N_git == <<".","g","i","t">>
N_a_txt == <<"a",".","t","x","t">>
N_c_txt == <<"c",".","t","x","t">>
N_b_log == <<"b",".","l","o","g">>
N_x_vsix == <<"x",".","v","s","i","x">>
N_main_go == <<"m","a","i","n",".","g","o">>
N_bad_bin == <<"b","a","d",".","b","i","n">>
N_d_bin == <<"d",".","b","i","n">>
N_e_dat == <<"e",".","d","a","t">>

AllOk(n) == <<Ok(n), Ok(n), Ok(n)>>
Latin1Only(n) == <<Raises("UnicodeDecodeError"), Ok(n), Ok(n)>>
Denied == <<Raises("PermissionError"), Raises("PermissionError"),
            Raises("PermissionError")>>
Broken == <<Raises("OSError"), Raises("OSError"), Raises("OSError")>>

\* Candidate regular files, relative to the scanned directory, with what
\* reading each of them does.
Universe ==
    { [path |-> <<N_a_txt>>,                              reads |-> AllOk(3)],
      [path |-> <<S_e911, N_a_txt>>,                      reads |-> AllOk(1)],
      [path |-> <<S_alohomora, S_common_go>>,             reads |-> AllOk(2)],
      [path |-> <<S_alohomora, N_ws, S_alohomora_go>>,    reads |-> AllOk(1)],
      [path |-> <<S_alohomora, N_main_go>>,               reads |-> AllOk(1)],
      [path |-> <<S_alohomora, S_logs, S_common_go>>,     reads |-> AllOk(1)],
      [path |-> <<N_ws, N_x_vsix>>,                       reads |-> Latin1Only(1)],
      [path |-> <<N_ws, N_b_log>>,                        reads |-> AllOk(3)],
      [path |-> <<N_ws, N_c_txt>>,                        reads |-> AllOk(3)],
      [path |-> <<N_ws, N_git, N_a_txt>>,                 reads |-> AllOk(1)],
      [path |-> <<N_ws, S_node_modules, N_a_txt>>,        reads |-> AllOk(1)],
      [path |-> <<N_ws, N_bad_bin>>,                      reads |-> Denied],
      [path |-> <<N_ws, N_d_bin>>,                        reads |-> Latin1Only(2)],
      [path |-> <<N_priv, N_a_txt>>,                      reads |-> AllOk(1)] }

UniversePaths == { u.path : u \in Universe }

Content(rel) == (CHOOSE u \in Universe : u.path = rel).reads

\* Directories (relative) that os.scandir cannot list
Unlistable == { <<N_priv>> }

Trees == { S \in SUBSET UniversePaths : Cardinality(S) <= MaxFiles }

\* (base_path, devRoot) for a directory given as the target: strict subtree,
\* ancestor, outside, and outside with "LOG" above the scanned directory.
\* Without a target base_path is devRoot.
Placements ==
    { <<<<N_dev, N_ws>>, <<N_dev>>>>,
      <<<<N_dev>>, <<N_dev, N_ws>>>>,
      <<<<N_other>>, <<N_dev>>>>,
      <<<<N_CataLOG>>, <<N_dev>>>> }

\* single regular files given as the target, with what reading them does
Targets ==
    { [path |-> <<N_dev, N_a_txt>>,         reads |-> AllOk(3)],
      [path |-> <<N_dev, N_ws, N_d_bin>>,   reads |-> Latin1Only(2)],
      [path |-> <<N_dev, N_ws, N_bad_bin>>, reads |-> Denied],
      [path |-> <<N_dev, N_e_dat>>,         reads |-> Broken] }

TargetFiles == { t.path : t \in Targets }

TargetContent(abs) == (CHOOSE t \in Targets : t.path = abs).reads

-----------------------------------------------------------------------------
(* The tree as os.walk sees it *)

AbsFiles == { base_path \o p : p \in fs }

\* directory entries of directory d
SubDirs(d) ==
    { SubSeq(p, 1, Len(d) + 1) :
        p \in { q \in AbsFiles : Len(q) > Len(d) + 1 /\ IsRelativeTo(q, d) } }

FilesIn(d) == { p \in AbsFiles : Len(p) = Len(d) + 1 /\ IsRelativeTo(p, d) }

\* Variant: node_modules is not filtered out.
KeepDir_HiddenOnly(d) == ~StartsWith(Name(d), <<".">>)

\* the filter of dirs[:]
KeepDir(d) == ~StartsWith(Name(d), <<".">>) /\ Name(d) # S_node_modules

\* the orders in which scandir may list a set of entries
Orders(S) ==
    { s \in [1..Cardinality(S) -> S] :
        \A i, j \in 1..Cardinality(S) : i # j => s[i] # s[j] }

-----------------------------------------------------------------------------
(* The dict project_stats and the report's sort *)

HasKey(stats, k) == \E i \in 1..Len(stats) : stats[i].project = k

\* Variant: the line count of an existing key is overwritten, not added to.
AddFile_Overwrite(stats, k, n) ==
    IF HasKey(stats, k)
    THEN [i \in 1..Len(stats) |->
            IF stats[i].project = k
            THEN [stats[i] EXCEPT !.files = @ + 1, !.lines = n]
            ELSE stats[i]]
    ELSE Append(stats, [project |-> k, files |-> 1, lines |-> n])

\* project_stats[k]['files'] += 1; project_stats[k]['lines'] += n
\* (the defaultdict inserts a missing key at the end)
AddFile(stats, k, n) ==
    IF HasKey(stats, k)
    THEN [i \in 1..Len(stats) |->
            IF stats[i].project = k
            THEN [stats[i] EXCEPT !.files = @ + 1, !.lines = @ + n]
            ELSE stats[i]]
    ELSE Append(stats, [project |-> k, files |-> 1, lines |-> n])

\* Variant: x goes before the rows with as many lines (ties reversed).
InsertDesc_Strict(rows, x) ==
    LET before == { i \in 1..Len(rows) : rows[i].lines > x.lines }
        k == IF before = {} THEN 0
             ELSE CHOOSE i \in before : \A j \in before : j <= i
    IN  SubSeq(rows, 1, k) \o <<x>> \o SubSeq(rows, k + 1, Len(rows))

\* x goes after every row with at least as many lines
InsertDesc(rows, x) ==
    LET before == { i \in 1..Len(rows) : rows[i].lines >= x.lines }
        k == IF before = {} THEN 0
             ELSE CHOOSE i \in before : \A j \in before : j <= i
    IN  SubSeq(rows, 1, k) \o <<x>> \o SubSeq(rows, k + 1, Len(rows))

\* sorted(project_stats.items(), key=lines, reverse=True): a stable sort,
\* rows with equal keys stay in the dict's order
RECURSIVE SortDesc(_)
SortDesc(stats) ==
    IF stats = <<>> THEN <<>>
    ELSE InsertDesc(SortDesc(SubSeq(stats, 1, Len(stats) - 1)),
                    stats[Len(stats)])

-----------------------------------------------------------------------------
(* The state before __main__ runs *)

Fresh ==
    /\ pc = "start"
    /\ dev_root = <<>>
    /\ base_path = <<>>
    /\ show_exclusions = FALSE
    /\ project_stats = <<>>
    /\ excluded_items = <<>>
    /\ total_files = 0
    /\ total_lines = 0
    /\ excluded_files = 0
    /\ stack = <<>>
    /\ visited = {}
    /\ files = {}
    /\ file_path = <<>>
    /\ was_excluded = FALSE
    /\ project = <<>>
    /\ lines = 0
    /\ sorted_projects = <<>>
    /\ output = <<>>
    /\ exit_code = -1
    /\ calls = 0

CommandLines ==
    { [target |-> "none", path |-> <<>>, flag |-> f] : f \in BOOLEAN }
    \cup { [target |-> "missing", path |-> <<N_other>>, flag |-> f] :
              f \in BOOLEAN }
    \cup { [target |-> "file", path |-> p, flag |-> f] :
              p \in TargetFiles, f \in BOOLEAN }
    \cup { [target |-> "dir", path |-> pl[1], flag |-> f] :
              pl \in Placements, f \in BOOLEAN }

\* A tree is only looked at when a directory is walked.
Init ==
    /\ Fresh
    /\ run = 1
    /\ prev = <<>>
    /\ argv \in CommandLines
    /\ config \in {<<>>} \cup { <<pl[2]>> : pl \in Placements }
    /\ argv.target = "dir" =>
          IF config = <<>> THEN TRUE
          ELSE <<argv.path, config[1]>> \in Placements
    /\ fs \in Trees
    /\ (config = <<>> \/ argv.target \in {"missing", "file"}) => fs = {}

-----------------------------------------------------------------------------
(* __main__ *)

Env == <<fs, config, run, prev>>
CountState == <<project_stats, excluded_items, total_files, total_lines,
                excluded_files, stack, visited, files, file_path,
                was_excluded, project, sorted_projects, calls>>

\* json.load or the key lookup fails
LoadConfigFails ==
    /\ pc = "start"
    /\ config = <<>>
    /\ output' = Append(output, "error_config")
    /\ exit_code' = 1
    /\ pc' = "done"
    /\ UNCHANGED <<Env, argv, dev_root, base_path, show_exclusions,
                   CountState, lines>>

LoadConfig ==
    /\ pc = "start"
    /\ config # <<>>
    /\ dev_root' = config[1]
    /\ pc' = "args"
    /\ UNCHANGED <<Env, argv, base_path, show_exclusions, CountState, lines,
                   output, exit_code>>

\* the target path does not exist
PathMissing ==
    /\ pc = "args"
    /\ argv.target = "missing"
    /\ show_exclusions' = argv.flag
    /\ base_path' = argv.path
    /\ output' = Append(output, "error_path")
    /\ exit_code' = 1
    /\ pc' = "done"
    /\ UNCHANGED <<Env, argv, dev_root, CountState, lines>>

\* Variant: the sys.exit(0) after the single file's count is missing.
SingleFile_NoExit ==
    /\ pc = "args"
    /\ argv.target = "file"
    /\ show_exclusions' = argv.flag
    /\ base_path' = argv.path
    /\ lines' = count_lines_in_file(TargetContent(argv.path))
    /\ output' = Append(output, "single")
    /\ calls' = calls + 1
    /\ project_stats' = <<>>
    /\ excluded_items' = <<>>
    /\ total_files' = 0
    /\ total_lines' = 0
    /\ excluded_files' = 0
    /\ stack' = <<base_path'>>
    /\ pc' = "walk"
    /\ UNCHANGED <<Env, argv, dev_root, visited, files, file_path,
                   was_excluded, project, sorted_projects, exit_code>>

\* the target path is a regular file
SingleFile ==
    /\ pc = "args"
    /\ argv.target = "file"
    /\ show_exclusions' = argv.flag
    /\ base_path' = argv.path
    /\ lines' = count_lines_in_file(TargetContent(argv.path))
    /\ output' = Append(output, "single")
    /\ exit_code' = 0
    /\ pc' = "done"
    /\ UNCHANGED <<Env, argv, dev_root, CountState>>

\* the call of count_project_lines and its first statements
StartCount ==
    /\ pc = "args"
    /\ argv.target \in {"none", "dir"}
    /\ show_exclusions' = argv.flag
    /\ base_path' = IF argv.target = "none" THEN dev_root ELSE argv.path
    /\ calls' = calls + 1
    /\ project_stats' = <<>>
    /\ excluded_items' = <<>>
    /\ total_files' = 0
    /\ total_lines' = 0
    /\ excluded_files' = 0
    /\ stack' = <<base_path'>>
    /\ pc' = "walk"
    /\ UNCHANGED <<Env, argv, dev_root, visited, files, file_path,
                   was_excluded, project, lines, sorted_projects, output,
                   exit_code>>

-----------------------------------------------------------------------------
(* count_project_lines *)

Top == stack[Len(stack)]
Rest == SubSeq(stack, 1, Len(stack) - 1)

\* os.walk pops a directory it cannot list: nothing is yielded for it
WalkUnlistable ==
    /\ pc = "walk"
    /\ files = {}
    /\ stack # <<>>
    /\ RelativeTo(Top, base_path) \in Unlistable
    /\ stack' = Rest
    /\ UNCHANGED <<Env, argv, pc, dev_root, base_path, show_exclusions,
                   project_stats, excluded_items, total_files, total_lines,
                   excluded_files, visited, files, file_path, was_excluded,
                   project, lines, sorted_projects, output, exit_code, calls>>

\* os.walk yields the next directory; the loop body prunes dirs and logs
\* the pruned ones
WalkDir ==
    /\ pc = "walk"
    /\ files = {}
    /\ stack # <<>>
    /\ RelativeTo(Top, base_path) \notin Unlistable
    /\ LET original_dirs == SubDirs(Top)
           dirs == { d \in original_dirs : KeepDir(d) }
       IN  /\ \E o \in Orders(dirs) : stack' = Rest \o o
           /\ IF show_exclusions
              THEN \E o \in Orders(original_dirs \ dirs) :
                      excluded_items' = excluded_items \o
                          [i \in 1..Len(o) |-> <<"dir", o[i]>>]
              ELSE excluded_items' = excluded_items
    /\ visited' = visited \cup {Top}
    /\ files' = FilesIn(Top)
    /\ UNCHANGED <<Env, argv, pc, dev_root, base_path, show_exclusions,
                   project_stats, total_files, total_lines, excluded_files,
                   file_path, was_excluded, project, lines, sorted_projects,
                   output, exit_code, calls>>

\* Variant: the key is the project of the rule lookup.
ProjectKey_FromDevRoot(fp, base) ==
    IF RuleProject(fp, base, dev_root) # <<>>
    THEN RuleProject(fp, base, dev_root) ELSE S_root

\* the aggregation key of an included file
ProjectKey(fp, base) ==
    LET rel_path == RelativeTo(fp, base)
    IN  IF Len(rel_path) > 0 THEN rel_path[1] ELSE S_root

\* Variant: excluded files are never logged.
LogFile_Never(items, show, f) == items

\* if show_exclusions: excluded_items.append(('file', file_path))
LogFile(items, show, f) ==
    IF show THEN Append(items, <<"file", f>>) ELSE items

\* one iteration of "for file in files"
ProcessFile ==
    /\ pc = "walk"
    /\ \E f \in files :
        /\ files' = files \ {f}
        /\ file_path' = f
        /\ was_excluded' = should_exclude(f, base_path, dev_root)
        /\ IF was_excluded'
           THEN /\ excluded_files' = excluded_files + 1
                /\ excluded_items' =
                      LogFile(excluded_items, show_exclusions, f)
                /\ UNCHANGED <<project, lines, project_stats, total_files,
                               total_lines>>
           ELSE /\ project' = ProjectKey(f, base_path)
                /\ lines' = count_lines_in_file(
                                Content(RelativeTo(f, base_path)))
                /\ project_stats' = AddFile(project_stats, project', lines')
                /\ total_files' = total_files + 1
                /\ total_lines' = total_lines + lines'
                /\ UNCHANGED <<excluded_files, excluded_items>>
    /\ UNCHANGED <<Env, argv, pc, dev_root, base_path, show_exclusions,
                   stack, visited, sorted_projects, output, exit_code, calls>>

\* the walk is over: sort, print the table and, if asked, the exclusions
\* (the listing is printed from excluded_items and changes no variable of
\* the run; output records that it was printed)
Report ==
    /\ pc = "walk"
    /\ files = {}
    /\ stack = <<>>
    /\ sorted_projects' = SortDesc(project_stats)
    /\ output' = output \o <<"report">> \o
                    (IF show_exclusions /\ excluded_items # <<>>
                     THEN <<"exclusions">> ELSE <<>>)
    /\ exit_code' = 0
    /\ pc' = "done"
    /\ UNCHANGED <<Env, argv, dev_root, base_path, show_exclusions,
                   project_stats, excluded_items, total_files, total_lines,
                   excluded_files, stack, visited, files, file_path,
                   was_excluded, project, lines, calls>>

-----------------------------------------------------------------------------
(* A second invocation on the unchanged tree, with the flag toggled *)

Result ==
    [project_stats |-> project_stats, total_files |-> total_files,
     total_lines |-> total_lines, excluded_files |-> excluded_files,
     visited |-> visited, sorted_projects |-> sorted_projects,
     output |-> output, exit_code |-> exit_code]

Rerun ==
    /\ pc = "done"
    /\ run = 1
    /\ run' = 2
    /\ prev' = <<Result>>
    /\ argv' = [argv EXCEPT !.flag = ~@]
    /\ pc' = "start"
    /\ dev_root' = <<>>
    /\ base_path' = <<>>
    /\ show_exclusions' = FALSE
    /\ project_stats' = <<>>
    /\ excluded_items' = <<>>
    /\ total_files' = 0
    /\ total_lines' = 0
    /\ excluded_files' = 0
    /\ stack' = <<>>
    /\ visited' = {}
    /\ files' = {}
    /\ file_path' = <<>>
    /\ was_excluded' = FALSE
    /\ project' = <<>>
    /\ lines' = 0
    /\ sorted_projects' = <<>>
    /\ output' = <<>>
    /\ exit_code' = -1
    /\ calls' = 0
    /\ UNCHANGED <<fs, config>>

Next ==
    \/ LoadConfigFails
    \/ LoadConfig
    \/ PathMissing
    \/ SingleFile
    \/ StartCount
    \/ WalkUnlistable
    \/ WalkDir
    \/ ProcessFile
    \/ Report
    \/ Rerun

Spec == Init /\ [][Next]_vars

-----------------------------------------------------------------------------
(* Notions the properties are stated with *)

RECURSIVE SumFiles(_)
SumFiles(stats) ==
    IF stats = <<>> THEN 0 ELSE Head(stats).files + SumFiles(Tail(stats))

RECURSIVE SumLines(_)
SumLines(stats) ==
    IF stats = <<>> THEN 0 ELSE Head(stats).lines + SumLines(Tail(stats))

\* a file has gone through the loop body of the current walk
Processed == file_path # <<>>

\* the last processed file was counted
Included == Processed /\ ~was_excluded

EndsWith(s, suf) ==
    Len(s) >= Len(suf) /\ SubSeq(s, Len(s) - Len(suf) + 1, Len(s)) = suf

\* some part of the path contains "log" in any letter case, or the name
\* ends in the extension .log or .vsix
GloballyExcluded(fp) ==
    \/ \E i \in 1..Len(fp) : Contains(Lower(fp[i]), S_log)
    \/ Len(Name(fp)) > Len(S_dot_log) /\ EndsWith(Name(fp), S_dot_log)
    \/ Len(Name(fp)) > Len(S_dot_vsix) /\ EndsWith(Name(fp), S_dot_vsix)

\* the files os.walk lists: no directory between base_path and the file is
\* hidden, named node_modules, or unlistable
Pruned(name) == name[1] = "." \/ name = S_node_modules

Listed ==
    { p \in fs : \A i \in 1..(Len(p) - 1) :
                    ~Pruned(p[i]) /\ SubSeq(p, 1, i) \notin Unlistable }

\* base_path equals dev_root, or neither directory lies within the other
KeysAgree ==
    \/ base_path = dev_root
    \/ ~IsRelativeTo(base_path, dev_root) /\ ~IsRelativeTo(dev_root, base_path)

FilesOf(stats, k) ==
    IF HasKey(stats, k)
    THEN stats[CHOOSE i \in 1..Len(stats) : stats[i].project = k].files
    ELSE 0

LinesOf(stats, k) ==
    IF HasKey(stats, k)
    THEN stats[CHOOSE i \in 1..Len(stats) : stats[i].project = k].lines
    ELSE 0

IndexOf(stats, k) == CHOOSE i \in 1..Len(stats) : stats[i].project = k

Rows(stats) == { stats[i] : i \in 1..Len(stats) }

Unreadable(reads) == \A i \in 1..Len(reads) : reads[i].tag # "ok"

Finished == pc = "done" /\ calls = 1

-----------------------------------------------------------------------------
(* Properties *)

\* C1: at every point of a run the per-project file counts add up to
\* total_files and the per-project line counts add up to total_lines.
C1_SumsMatchTotals ==
    /\ SumFiles(project_stats) = total_files
    /\ SumLines(project_stats) = total_lines

C1_Witness ==
    /\ Finished
    /\ Len(project_stats) >= 2
    /\ total_files = 3
    /\ total_lines > 3

\* C2 as stated: when the walk is over every regular file beneath base_path,
\* also those under hidden or node_modules directories, was counted once,
\* as excluded or as included (stated here for the trees whose directories
\* can all be listed).
C2_AllFilesClassified ==
    (/\ Finished
     /\ \A p \in fs : \A i \in 1..(Len(p) - 1) :
            SubSeq(p, 1, i) \notin Unlistable)
        => total_files + excluded_files = Cardinality(fs)

\* C2 amended: when the walk is over every regular file that os.walk lists
\* (no directory between base_path and the file is hidden, named
\* node_modules or unlistable) was counted exactly once, as excluded or as
\* included under one project.
C2_ListedFilesClassified ==
    Finished =>
        /\ total_files + excluded_files = Cardinality(Listed)
        /\ SumFiles(project_stats) = total_files

C2_Witness ==
    /\ Finished
    /\ Cardinality(fs) = 3
    /\ Cardinality(Listed) = 2
    /\ total_files = 1
    /\ excluded_files = 1

\* C3: a file whose path contains "log" in any part and any letter case, or
\* whose suffix is .log or .vsix, is excluded whatever its project is.
C3_GlobalExclusions ==
    (Processed /\ GloballyExcluded(file_path)) => was_excluded

C3_Witness ==
    /\ file_path = <<N_dev, S_alohomora, S_logs, S_common_go>>
    /\ argv.target = "none"
    /\ base_path = <<N_dev>>
    /\ dev_root = <<N_dev>>
    /\ was_excluded

C5_AlohomoraWhitelist ==
    (Processed /\ RuleProject(file_path, base_path, dev_root) = S_alohomora)
        => (~was_excluded <=>
               /\ ~GloballyExcluded(file_path)
               /\ Name(file_path) \in {S_common_go, S_alohomora_go})

C5_Witness ==
    /\ file_path = <<N_dev, S_alohomora, N_ws, S_alohomora_go>>
    /\ RuleProject(file_path, base_path, dev_root) = S_alohomora
    /\ ~was_excluded
    /\ excluded_files >= 1

C7_MainExits ==
    pc = "done" =>
        /\ argv.target = "file" =>
              exit_code = 0 /\ output = <<"single">> /\ calls = 0
        /\ (argv.target = "missing" \/ config = <<>>) =>
              exit_code = 1 /\ calls = 0
              /\ \A i \in 1..Len(output) : output[i] # "report"

\* C7 amended: when devRoot loads from config.json, a target that is a
\* regular file ends in exit code 0 with that file's line count printed and
\* count_project_lines never called; a missing target or an unloadable
\* devRoot ends in exit code 1 with no report.
C7_MainExitsConfigFirst ==
    pc = "done" =>
        /\ (argv.target = "file" /\ config # <<>>) =>
              /\ exit_code = 0
              /\ output = <<"single">>
              /\ calls = 0
              /\ project_stats = <<>>
              /\ lines = count_lines_in_file(TargetContent(argv.path))
        /\ (argv.target = "missing" \/ config = <<>>) =>
              /\ exit_code = 1
              /\ calls = 0
              /\ \A i \in 1..Len(output) : output[i] # "report"

C7_Witness ==
    /\ pc = "done"
    /\ argv.target = "file"
    /\ config # <<>>
    /\ exit_code = 0
    /\ lines = 3

C9_UnreadableCounted ==
    /\ [](Finished => total_files + excluded_files = Cardinality(Listed))
    /\ [][ (/\ pc = "walk"
            /\ files' # files
            /\ files' \subseteq files
            /\ ~was_excluded'
            /\ Unreadable(Content(RelativeTo(file_path', base_path))))
           => /\ lines' = 0
              /\ total_files' = total_files + 1
              /\ total_lines' = total_lines
              /\ excluded_files' = excluded_files
              /\ FilesOf(project_stats', project')
                    = FilesOf(project_stats, project') + 1
              /\ LinesOf(project_stats', project')
                    = LinesOf(project_stats, project')
              /\ pc' = "walk"
              /\ stack' = stack
              /\ files' = files \ {file_path'} ]_vars

C9_Witness ==
    /\ Included
    /\ Name(file_path) = N_c_txt
    /\ project = N_ws
    /\ FilesOf(project_stats, N_ws) = 2
    /\ LinesOf(project_stats, N_ws) = 3
    /\ excluded_files = 0

\* C10: a run with show_exclusions set and a run without it over the same
\* tree end with the same project_stats, totals and excluded_files and
\* visit the same directories; and while the flag is set, excluded_items
\* holds as many file entries as excluded_files counts.
C10_FlagOnlyLogs ==
    /\ (Finished /\ run = 2) =>
          /\ prev[1].exit_code = exit_code
          /\ Rows(prev[1].project_stats) = Rows(project_stats)
          /\ Len(prev[1].project_stats) = Len(project_stats)
          /\ prev[1].total_files = total_files
          /\ prev[1].total_lines = total_lines
          /\ prev[1].excluded_files = excluded_files
          /\ prev[1].visited = visited
    /\ show_exclusions =>
          Cardinality({ i \in 1..Len(excluded_items) :
                          excluded_items[i][1] = "file" }) = excluded_files

C10_Witness ==
    /\ Finished
    /\ run = 2
    /\ show_exclusions
    /\ excluded_files = 1
    /\ Len(excluded_items) = 2
    /\ total_files >= 1

====
